---- MODULE Spec2Model ----
(***************************************************************************)
(* Pricing and lifecycle engine of shopcrm (src/app.py).                   *)
(*                                                                         *)
(* Numbers.  Decimal values are scaled integers:                           *)
(*   money (unit_price, cost, rate_per_hour, subtotal, tax, total): cents  *)
(*   qty, labor_hours, min/max_hours:                      hundredths      *)
(*   multiplier:                                           1/10000         *)
(*   TAX_RATE:                                             hundredths      *)
(*   qty * unit_price (line_amount) and their sums:        1/10000         *)
(* An optional value (Python None or a value) is <<>> or <<v>>.            *)
(* A timestamp column is TRUE when set and FALSE when NULL.                *)
(***************************************************************************)
EXTENDS Integers, Sequences, FiniteSets, TLC

VARIABLES
    TAX_RATE,     \* module global TAX_RATE, read once from the environment
    ros,          \* RepairOrder rows: id -> [status, closed_at]
    jobs,         \* Job rows: id -> [ro_id, title, status, completed_at, tech_id]
    docs,         \* Document rows: <<ro_id, doc_type>> -> record
    lineItems,    \* LineItem rows of each document, in created_at order
    laborTiers,   \* LaborMatrixTier rows, in insertion order
    partsTiers,   \* PartsMatrixTier rows, in insertion order
    techs,        \* Technician rows: id -> total_hours
    events,       \* ROEvent rows, in insertion order
    response,     \* what the last request answered: the flash message or abort code,
                  \* else the kind of response (redirect, page, pdf, json)
    pending       \* requests between two commits: <<handler, document>> pairs whose
                  \* first db.session.commit() is done and whose second is not

vars == <<TAX_RATE, ros, jobs, docs, lineItems, laborTiers, partsTiers, techs, events, response,
         pending>>

----------------------------------------------------------------------------
\* Bounds of the model.

MaxItems == 2
MaxJobs == 2
MaxTiers == 2
MaxEvents == 3
MaxTechHours == 200
MaxPending == 1

----------------------------------------------------------------------------
\* Values.

None == <<>>
Some(v) == <<v>>
Val(o) == o[1]
Opt(S) == {None} \cup {Some(v) : v \in S}

NoJob == "None"
JobIds == {"j1", "j2", "j3", "j4"}
RoIds == {"ro1", "ro2"}
TechIds == {"t1"}
DocTypes == {"estimate", "invoice"}
Est(r) == <<r, "estimate">>
Inv(r) == <<r, "invoice">>

Abs(x) == IF x < 0 THEN -x ELSE x

\* Decimal.quantize under the default context (ROUND_HALF_EVEN): n/d to the
\* nearest integer, ties to the even one.
RoundHalfEven(n, d) ==
    LET q == n \div d
        r == n % d
    IN  IF 2 * r < d THEN q
        ELSE IF 2 * r > d THEN q + 1
        ELSE IF q % 2 = 0 THEN q ELSE q + 1

RECURSIVE SumSeq(_)
SumSeq(s) == IF s = <<>> THEN 0 ELSE Head(s) + SumSeq(Tail(s))

RECURSIVE SelectIdx(_, _, _)
\* the subsequence of s at the indices of keep, in order (a list comprehension)
SelectIdx(s, keep, i) ==
    IF i > Len(s) THEN <<>>
    ELSE IF i \in keep THEN <<s[i]>> \o SelectIdx(s, keep, i + 1)
    ELSE SelectIdx(s, keep, i + 1)

RemoveAt(s, i) == SubSeq(s, 1, i - 1) \o SubSeq(s, i + 1, Len(s))

----------------------------------------------------------------------------
\* Helpers of create_app.

\* log_event that puts the new row first
log_event_newest_first(log, ro_id, event_type, old, new) ==
    <<[ro_id |-> ro_id, event_type |-> event_type, old_value |-> old, new_value |-> new]>>
      \o log

log_event(log, ro_id, event_type, old, new) ==
    Append(log, [ro_id |-> ro_id, event_type |-> event_type,
                 old_value |-> old, new_value |-> new])

line_amount(li) ==
    LET amt == li.qty * li.unit_price
    IN  IF li.item_type = "discount" THEN -Abs(amt) ELSE amt

\* active_items_for_totals without its filter on the job's status
active_items_unfiltered(items, jobRows) == items

\* indices of the items kept: no job tag, or a job whose status is not declined
\* (a tag naming no Job row has no status and is kept)
active_items_for_totals(items, jobRows) ==
    LET job_ids == {items[i].job_id : i \in DOMAIN items} \ {NoJob}
        job_status == [j \in (job_ids \cap DOMAIN jobRows) |-> jobRows[j].status]
        keep == {i \in DOMAIN items :
                    items[i].job_id = NoJob
                    \/ items[i].job_id \notin DOMAIN job_status
                    \/ job_status[items[i].job_id] # "declined"}
    IN  SelectIdx(items, keep, 1)

\* the lock guard never taken
NeverFrozen(doc) == FALSE

Frozen(doc) == doc.status \in {"locked", "paid"} \/ doc.locked_at

\* recalc_document_totals taxing every active item, whatever its taxable flag
\* and type
recalc_taxing_every_item(doc, items, jobRows, rate) ==
    IF Frozen(doc) THEN doc
    ELSE
        LET active_items == active_items_for_totals(items, jobRows)
            subtotal == SumSeq([i \in DOMAIN active_items |-> line_amount(active_items[i])])
            tax == RoundHalfEven(subtotal * rate, 10000)
        IN  [doc EXCEPT !.subtotal = RoundHalfEven(subtotal, 100),
                        !.tax = tax,
                        !.total = RoundHalfEven(subtotal + tax * 100, 100)]

\* recalc_document_totals adding the items' sum onto the stored subtotal
recalc_accumulating(doc, items, jobRows, rate) ==
    IF Frozen(doc) THEN doc
    ELSE
        LET active_items == active_items_for_totals(items, jobRows)
            subtotal == doc.subtotal * 100
                        + SumSeq([i \in DOMAIN active_items |-> line_amount(active_items[i])])
            taxable == SumSeq([i \in DOMAIN active_items |->
                          IF active_items[i].taxable /\ active_items[i].item_type # "discount"
                          THEN line_amount(active_items[i]) ELSE 0])
            tax == RoundHalfEven(taxable * rate, 10000)
        IN  [doc EXCEPT !.subtotal = RoundHalfEven(subtotal, 100),
                        !.tax = tax,
                        !.total = RoundHalfEven(subtotal + tax * 100, 100)]

recalc_document_totals(doc, items, jobRows, rate) ==
    IF Frozen(doc) THEN doc
    ELSE
        LET active_items == active_items_for_totals(items, jobRows)
            subtotal == SumSeq([i \in DOMAIN active_items |-> line_amount(active_items[i])])
            taxable == SumSeq([i \in DOMAIN active_items |->
                          IF active_items[i].taxable /\ active_items[i].item_type # "discount"
                          THEN line_amount(active_items[i]) ELSE 0])
            tax == RoundHalfEven(taxable * rate, 10000)
            total == RoundHalfEven(subtotal + tax * 100, 100)
        IN  [doc EXCEPT !.subtotal = RoundHalfEven(subtotal, 100),
                        !.tax = tax,
                        !.total = total]

RECURSIVE DivideScaled(_, _, _, _)
\* n / d carried to k more decimal places: the floor quotient and remainder of
\* (q * d + r) * 10^k by d, for d > 0 and 0 <= r < d
DivideScaled(q, r, d, k) ==
    IF k = 0 THEN [q |-> q, r |-> r]
    ELSE DivideScaled(q * 10 + (r * 10) \div d, (r * 10) % d, d, k - 1)

\* (n / d * 100).quantize(Decimal("0.01")) in hundredths of a percent, d # 0
PercentOf(n, d) ==
    LET num == IF d < 0 THEN -n ELSE n
        den == Abs(d)
        x == DivideScaled(num \div den, num % den, den, 4)
    IN  IF 2 * x.r < den THEN x.q
        ELSE IF 2 * x.r > den THEN x.q + 1
        ELSE IF x.q % 2 = 0 THEN x.q ELSE x.q + 1

\* revenue and cost are summed over every item of the document; the returned
\* money is in cents, margin_pct in hundredths of a percent
calc_profit_for_doc(items) ==
    LET revenue == SumSeq([i \in DOMAIN items |-> line_amount(items[i])])
        cost == SumSeq([i \in DOMAIN items |->
                   IF items[i].item_type # "discount" /\ items[i].cost # None
                   THEN items[i].qty * Val(items[i].cost) ELSE 0])
        gp == revenue - cost
        margin == IF revenue # 0 THEN PercentOf(gp, revenue) ELSE 0
    IN  [revenue |-> RoundHalfEven(revenue, 100),
         cost |-> RoundHalfEven(cost, 100),
         gross_profit |-> RoundHalfEven(gp, 100),
         margin_pct |-> margin]

\* ---- Matrix logic ----

\* the rows of a tier table as ORDER BY <min column> ASC returns them: every
\* order that is ascending in the key (rows with equal keys come in any order)
OrderByMin(tiers) ==
    LET n == Len(tiers)
        perms == {p \in [1..n -> 1..n] : \A i, j \in 1..n : i # j => p[i] # p[j]}
        asc == {p \in perms : \A i, j \in 1..n : i < j => tiers[p[i]].min <= tiers[p[j]].min}
    IN  {[i \in 1..n |-> tiers[p[i]]] : p \in asc}

RECURSIVE FirstMatch(_, _, _)
\* the for loop of both lookups: index of the first tier containing x, 0 if none
FirstMatch(tiers, x, i) ==
    IF i > Len(tiers) THEN 0
    ELSE IF x >= tiers[i].min /\ (tiers[i].max = None \/ x <= Val(tiers[i].max)) THEN i
    ELSE FirstMatch(tiers, x, i + 1)

\* get_labor_rate_for_hours falling back to the first tier, not the last
labor_rate_first_tier_fallback(tiers, hours) ==
    IF tiers = <<>> THEN 11500
    ELSE LET i == FirstMatch(tiers, hours, 1)
         IN  IF i # 0 THEN tiers[i].value ELSE tiers[1].value

get_labor_rate_for_hours(tiers, hours) ==
    IF tiers = <<>> THEN 11500
    ELSE LET i == FirstMatch(tiers, hours, 1)
         IN  IF i # 0 THEN tiers[i].value ELSE tiers[Len(tiers)].value

get_parts_multiplier_for_cost(tiers, cost) ==
    IF tiers = <<>> THEN 13000
    ELSE LET i == FirstMatch(tiers, cost, 1)
         IN  IF i # 0 THEN tiers[i].value ELSE tiers[Len(tiers)].value

----------------------------------------------------------------------------
\* Share tokens.  tok is the token secrets.token_urlsafe finally yields: the
\* loop retries until no Document row holds it.

HeldTokens(docRows) == {docRows[d].share_token : d \in DOMAIN docRows} \ {None}

\* ensure_share_token that issues a token on every call
ensure_share_token_reissuing(doc, docRows, tok) == [doc EXCEPT !.share_token = Some(tok)]

ensure_share_token(doc, docRows, tok) ==
    IF doc.share_token # None THEN doc
    ELSE [doc EXCEPT !.share_token = Some(tok)]

\* the guard under which the loop of ensure_share_token ends with tok
\* the generation loop left at its first token, held or not
TokenUnchecked(doc, docRows, tok) == TRUE

TokenFree(doc, docRows, tok) ==
    doc.share_token # None \/ Some(tok) \notin HeldTokens(docRows)

JobsOf(jobRows, r) == {j \in DOMAIN jobRows : jobRows[j].ro_id = r}

JobIdOrder == <<"j1", "j2", "j3", "j4">>
\* the primary key a new Job row gets: an id no Job row has
NewJobId(jobRows) ==
    JobIdOrder[CHOOSE i \in 1..Len(JobIdOrder) :
                  /\ JobIdOrder[i] \notin DOMAIN jobRows
                  /\ \A k \in 1..(i - 1) : JobIdOrder[k] \in DOMAIN jobRows]

AddRow(f, k, v) == [x \in DOMAIN f \cup {k} |-> IF x = k THEN v ELSE f[x]]
DelRow(f, k) == [x \in DOMAIN f \ {k} |-> f[x]]

ensure_default_job(jobRows, r, concern) ==
    IF JobsOf(jobRows, r) = {}
    THEN AddRow(jobRows, NewJobId(jobRows),
                [ro_id |-> r, title |-> IF concern = None THEN "Job 1" ELSE Val(concern),
                 status |-> "pending", completed_at |-> FALSE, tech_id |-> None])
    ELSE jobRows

labor_hours_for_job(items, job_id) ==
    SumSeq([i \in DOMAIN items |->
              IF items[i].job_id = job_id /\ items[i].item_type = "labor"
              THEN IF items[i].labor_hours # None THEN Val(items[i].labor_hours)
                   ELSE items[i].qty
              ELSE 0])

----------------------------------------------------------------------------
\* Settings: matrices.

\* "parse_decimal(...) or default": None and 0 both give the default
OrDefault(o, dflt) == IF o = None \/ Val(o) = 0 THEN dflt ELSE Val(o)

matrices_labor_add(min_in, max_in, rate_in) ==
    /\ Len(laborTiers) < MaxTiers
    /\ laborTiers' = Append(laborTiers, [min |-> OrDefault(min_in, 0), max |-> max_in,
                                         value |-> OrDefault(rate_in, 11500)])
    /\ response' = "redirect"
    /\ UNCHANGED <<pending, TAX_RATE, ros, jobs, docs, lineItems, partsTiers, techs, events>>

matrices_parts_add(min_in, max_in, mult_in) ==
    /\ Len(partsTiers) < MaxTiers
    /\ partsTiers' = Append(partsTiers, [min |-> OrDefault(min_in, 0), max |-> max_in,
                                         value |-> OrDefault(mult_in, 13000)])
    /\ response' = "redirect"
    /\ UNCHANGED <<pending, TAX_RATE, ros, jobs, docs, lineItems, laborTiers, techs, events>>

\* tier_id names one row of one of the two tables
matrices_delete_tier(kind, i) ==
    /\ \/ /\ kind = "labor"
          /\ i \in DOMAIN laborTiers
          /\ laborTiers' = RemoveAt(laborTiers, i)
          /\ UNCHANGED partsTiers
       \/ /\ kind = "parts"
          /\ i \in DOMAIN partsTiers
          /\ partsTiers' = RemoveAt(partsTiers, i)
          /\ UNCHANGED laborTiers
    /\ response' = "redirect"
    /\ UNCHANGED <<pending, TAX_RATE, ros, jobs, docs, lineItems, techs, events>>

----------------------------------------------------------------------------
\* Line items.

\* the form of /docs/<doc_id>/items/add after parse_decimal: every numeric
\* field is None (absent or unparsable) or a value
NoForm ==
    [item_type |-> "", description |-> "", job_id |-> NoJob, qty |-> None,
     taxable |-> FALSE, labor_hours |-> None, labor_rate |-> None,
     part_cost |-> None, part_price |-> None, fee_price |-> None, fee_cost |-> None,
     discount_amount |-> None, discount_cost |-> None]

\* the LineItem constructor call of add_line_item, and its early returns
ItemRow(f, qty, unit_price, taxable, hours_in, cost_in) ==
    [ok |-> TRUE,
     li |-> [job_id |-> f.job_id, item_type |-> f.item_type,
             description |-> f.description, qty |-> qty,
             unit_price |-> unit_price, taxable |-> taxable,
             labor_hours |-> hours_in, cost |-> cost_in]]
ItemErr(msg) == [ok |-> FALSE, msg |-> msg]

\* parse_decimal(request.form.get("qty")), 1.00 when absent
PostedQty(f) == IF f.qty # None THEN Val(f.qty) ELSE 100

LaborRow(f, lt) ==
    IF f.labor_hours = None THEN ItemErr("Labor requires hours.")
    ELSE LET qty == Val(f.labor_hours)
             rate == get_labor_rate_for_hours(lt, qty)
         IN  ItemRow(f, qty, IF f.labor_rate # None THEN Val(f.labor_rate) ELSE rate,
                     FALSE, f.labor_hours, None)

PartRow(f, pt) ==
    IF f.part_cost = None THEN ItemErr("Parts require cost.")
    ELSE LET multiplier == get_parts_multiplier_for_cost(pt, Val(f.part_cost))
         IN  ItemRow(f, PostedQty(f),
                     IF f.part_price = None
                     THEN RoundHalfEven(Val(f.part_cost) * multiplier, 10000)
                     ELSE Val(f.part_price),
                     TRUE, None, f.part_cost)

FeeRow(f) ==
    IF f.fee_price = None THEN ItemErr("Fee requires a unit price.")
    ELSE ItemRow(f, PostedQty(f), Val(f.fee_price), f.taxable, None, f.fee_cost)

DiscountRow(f) ==
    IF f.discount_amount = None THEN ItemErr("Discount requires an amount.")
    ELSE ItemRow(f, PostedQty(f), Abs(Val(f.discount_amount)) * (-1), FALSE, None,
                 f.discount_cost)

\* NewLineItem whose labor branch keeps the posted qty and taxable flag
NewLineItemLaborAsPosted(f, lt, pt) ==
    CASE f.item_type = "labor" ->
           IF f.labor_hours = None THEN ItemErr("Labor requires hours.")
           ELSE ItemRow(f, PostedQty(f),
                        IF f.labor_rate # None THEN Val(f.labor_rate)
                        ELSE get_labor_rate_for_hours(lt, Val(f.labor_hours)),
                        f.taxable, f.labor_hours, None)
      [] f.item_type = "part" -> PartRow(f, pt)
      [] f.item_type = "fee" -> FeeRow(f)
      [] f.item_type = "discount" -> DiscountRow(f)
      [] OTHER -> ItemErr("Invalid line item type.")

\* NewLineItem whose part branch truncates the matrix price and keeps the
\* posted taxable flag
NewLineItemPartAsPosted(f, lt, pt) ==
    CASE f.item_type = "labor" -> LaborRow(f, lt)
      [] f.item_type = "part" ->
           IF f.part_cost = None THEN ItemErr("Parts require cost.")
           ELSE ItemRow(f, PostedQty(f),
                        IF f.part_price = None
                        THEN (Val(f.part_cost)
                                * get_parts_multiplier_for_cost(pt, Val(f.part_cost))) \div 10000
                        ELSE Val(f.part_price),
                        f.taxable, None, f.part_cost)
      [] f.item_type = "fee" -> FeeRow(f)
      [] f.item_type = "discount" -> DiscountRow(f)
      [] OTHER -> ItemErr("Invalid line item type.")

\* NewLineItem whose fee branch prices a fee posted without a unit price at 0.00
NewLineItemFeeUnpriced(f, lt, pt) ==
    CASE f.item_type = "labor" -> LaborRow(f, lt)
      [] f.item_type = "part" -> PartRow(f, pt)
      [] f.item_type = "fee" ->
           ItemRow(f, PostedQty(f), IF f.fee_price = None THEN 0 ELSE Val(f.fee_price),
                   f.taxable, None, f.fee_cost)
      [] f.item_type = "discount" -> DiscountRow(f)
      [] OTHER -> ItemErr("Invalid line item type.")

\* add_line_item from "item_type = ..." to the LineItem constructor: the row to
\* insert, or the flash message of the validation that failed.  lt and pt are
\* the tier tables as the two lookups' queries return them.
NewLineItem(f, lt, pt) ==
    CASE f.item_type = "labor" -> LaborRow(f, lt)
      [] f.item_type = "part" -> PartRow(f, pt)
      [] f.item_type = "fee" -> FeeRow(f)
      [] f.item_type = "discount" -> DiscountRow(f)
      [] OTHER -> ItemErr("Invalid line item type.")

add_line_item(doc_id, f) ==
    /\ doc_id \in DOMAIN docs
    /\ IF Frozen(docs[doc_id])
       THEN /\ response' = "Document is locked."
            /\ UNCHANGED <<docs, lineItems>>
       ELSE \E lt \in OrderByMin(laborTiers), pt \in OrderByMin(partsTiers) :
              LET new == NewLineItem(f, lt, pt)
              IN  IF ~new.ok
                  THEN /\ response' = new.msg
                       /\ UNCHANGED <<docs, lineItems>>
                  ELSE /\ Len(lineItems[doc_id]) < MaxItems
                       /\ lineItems' = [lineItems EXCEPT ![doc_id] = Append(@, new.li)]
                       /\ docs' = [docs EXCEPT ![doc_id] =
                                     recalc_document_totals(@, lineItems'[doc_id], jobs, TAX_RATE)]
                       /\ response' = "redirect"
    /\ UNCHANGED <<pending, TAX_RATE, ros, jobs, laborTiers, partsTiers, techs, events>>

\* item_id names the i-th LineItem row of document doc_id
delete_item(doc_id, i) ==
    /\ doc_id \in DOMAIN docs
    /\ i \in DOMAIN lineItems[doc_id]
    /\ IF Frozen(docs[doc_id])
       THEN /\ response' = "Document is locked."
            /\ UNCHANGED <<docs, lineItems>>
       ELSE /\ lineItems' = [lineItems EXCEPT ![doc_id] = RemoveAt(@, i)]
            /\ docs' = [docs EXCEPT ![doc_id] =
                          recalc_document_totals(@, lineItems'[doc_id], jobs, TAX_RATE)]
            /\ response' = "redirect"
    /\ UNCHANGED <<pending, TAX_RATE, ros, jobs, laborTiers, partsTiers, techs, events>>

\* the form of /items/<item_id>/edit after parse_decimal
NoEdit ==
    [description |-> "", qty |-> None, unit_price |-> None, taxable |-> FALSE,
     cost |-> None, labor_hours |-> None, job_id |-> NoJob]

EditedItem(li, f) ==
    [li EXCEPT !.description = IF f.description # "" THEN f.description ELSE li.description,
               !.qty = IF f.qty # None THEN Val(f.qty) ELSE @,
               !.unit_price = IF f.unit_price # None THEN Val(f.unit_price) ELSE @,
               !.taxable = f.taxable,
               !.job_id = f.job_id,
               !.cost = IF f.cost # None THEN f.cost ELSE @,
               !.labor_hours = IF f.labor_hours # None THEN f.labor_hours ELSE @]

edit_item(doc_id, i, f) ==
    /\ doc_id \in DOMAIN docs
    /\ i \in DOMAIN lineItems[doc_id]
    /\ IF Frozen(docs[doc_id])
       THEN /\ response' = "Document is locked."
            /\ UNCHANGED <<docs, lineItems>>
       ELSE /\ lineItems' = [lineItems EXCEPT ![doc_id][i] = EditedItem(@, f)]
            /\ docs' = [docs EXCEPT ![doc_id] =
                          recalc_document_totals(@, lineItems'[doc_id], jobs, TAX_RATE)]
            /\ response' = "Line item updated."
    /\ UNCHANGED <<pending, TAX_RATE, ros, jobs, laborTiers, partsTiers, techs, events>>

----------------------------------------------------------------------------
\* Repair orders, jobs, technicians.

NewDoc(r, t) ==
    [ro_id |-> r, doc_type |-> t, status |-> "draft", sent_at |-> FALSE,
     locked_at |-> FALSE, subtotal |-> 0, tax |-> 0, total |-> 0, share_token |-> None]

ro_new_create(r, concern) ==
    /\ r \notin DOMAIN ros
    /\ ros' = AddRow(ros, r, [status |-> "open", closed_at |-> FALSE, concern |-> concern])
    /\ events' = log_event(events, r, "created", None, Some("open"))
    /\ docs' = AddRow(AddRow(docs, Est(r), NewDoc(r, "estimate")), Inv(r), NewDoc(r, "invoice"))
    /\ lineItems' = AddRow(AddRow(lineItems, Est(r), <<>>), Inv(r), <<>>)
    /\ jobs' = ensure_default_job(jobs, r, concern)
    /\ response' = "redirect"
    /\ UNCHANGED <<pending, TAX_RATE, laborTiers, partsTiers, techs>>

\* GET /ros/<ro_id>: the page writes share tokens, the default job and both
\* documents' totals before it renders
ro_detail(r, tok1, tok2) ==
    /\ r \in DOMAIN ros
    /\ TokenFree(docs[Est(r)], docs, tok1)
    /\ LET withEst == [docs EXCEPT ![Est(r)] = ensure_share_token(@, docs, tok1)]
       IN  /\ TokenFree(withEst[Inv(r)], withEst, tok2)
           /\ jobs' = ensure_default_job(jobs, r, ros[r].concern)
           /\ LET withInv == [withEst EXCEPT ![Inv(r)] = ensure_share_token(@, withEst, tok2)]
              IN  docs' = [withInv EXCEPT
                             ![Est(r)] = recalc_document_totals(@, lineItems[Est(r)], jobs', TAX_RATE),
                             ![Inv(r)] = recalc_document_totals(@, lineItems[Inv(r)], jobs', TAX_RATE)]
    /\ response' = "ro_detail.html"
    /\ UNCHANGED <<pending, TAX_RATE, ros, lineItems, laborTiers, partsTiers, techs, events>>

RoStatuses == {"open", "estimate_sent", "work_in_progress", "closed", "canceled"}

\* ro_change_status that never clears closed_at
ro_change_status_keeping_closed_at(r, new_status) ==
    /\ r \in DOMAIN ros
    /\ new_status \in {"open", "estimate_sent", "work_in_progress", "closed", "canceled"}
    /\ ros' = [ros EXCEPT ![r].status = new_status,
                          ![r].closed_at = @ \/ new_status = "closed"]
    /\ events' = log_event(events, r, "ro_status", Some(ros[r].status), Some(new_status))
    /\ response' = "redirect"
    /\ UNCHANGED <<pending, TAX_RATE, jobs, docs, lineItems, laborTiers, partsTiers, techs>>

\* ro_change_status without the check of the posted status
ro_change_status_unvalidated(r, new_status) ==
    /\ r \in DOMAIN ros
    /\ ros' = [ros EXCEPT ![r].status = new_status,
                          ![r].closed_at = (new_status = "closed")]
    /\ events' = log_event(events, r, "ro_status", Some(ros[r].status), Some(new_status))
    /\ response' = "redirect"
    /\ UNCHANGED <<pending, TAX_RATE, jobs, docs, lineItems, laborTiers, partsTiers, techs>>

ro_change_status(r, new_status) ==
    /\ r \in DOMAIN ros
    /\ IF new_status \notin RoStatuses
       THEN /\ response' = "Invalid status."
            /\ UNCHANGED <<ros, events>>
       ELSE /\ ros' = [ros EXCEPT ![r].status = new_status,
                                  ![r].closed_at = (new_status = "closed")]
            /\ events' = log_event(events, r, "ro_status", Some(ros[r].status), Some(new_status))
            /\ response' = "redirect"
    /\ UNCHANGED <<pending, TAX_RATE, jobs, docs, lineItems, laborTiers, partsTiers, techs>>

JobStatuses == {"pending", "approved", "work_in_progress", "completed", "declined"}

\* a count that never finds an open job
RemainingNone(jobRows, r) == 0

\* count of the RepairOrder's jobs whose status is not completed
Remaining(jobRows, r) == Cardinality({j \in JobsOf(jobRows, r) : jobRows[j].status # "completed"})

\* job_set_status that promotes the repair order from any status
job_set_status_promoting(j, new_status) ==
    /\ j \in DOMAIN jobs
    /\ new_status \in {"pending", "approved", "work_in_progress", "completed", "declined"}
    /\ jobs' = [jobs EXCEPT ![j].status = new_status]
    /\ events' = log_event(events, jobs[j].ro_id, "job_status",
                           Some(jobs[j].title \o ":" \o jobs[j].status),
                           Some(jobs[j].title \o ":" \o new_status))
    /\ ros' = IF new_status \in {"approved", "work_in_progress"}
              THEN [ros EXCEPT ![jobs[j].ro_id].status = "work_in_progress"]
              ELSE ros
    /\ response' = "redirect"
    /\ UNCHANGED <<pending, TAX_RATE, docs, lineItems, laborTiers, partsTiers, techs>>

job_set_status(j, new_status) ==
    /\ j \in DOMAIN jobs
    /\ LET r == jobs[j].ro_id
           title == jobs[j].title
       IN  IF new_status \notin JobStatuses
           THEN /\ response' = "Invalid job status."
                /\ UNCHANGED <<ros, jobs, events>>
           ELSE /\ jobs' = [jobs EXCEPT ![j].status = new_status,
                                        ![j].completed_at = @ \/ new_status = "completed"]
                /\ LET ev1 == log_event(events, r, "job_status",
                                        Some(title \o ":" \o jobs[j].status),
                                        Some(title \o ":" \o new_status))
                       wip == new_status \in {"approved", "work_in_progress"}
                              /\ ros[r].status \in {"open", "estimate_sent"}
                       closes == new_status = "completed" /\ Remaining(jobs', r) = 0
                   IN  /\ ros' = IF closes
                                 THEN [ros EXCEPT ![r].status = "closed", ![r].closed_at = TRUE]
                                 ELSE IF wip THEN [ros EXCEPT ![r].status = "work_in_progress"]
                                 ELSE ros
                       /\ events' = IF closes
                                    THEN log_event(ev1, r, "ro_completed", None, Some("closed_at"))
                                    ELSE ev1
                /\ response' = "redirect"
    /\ UNCHANGED <<pending, TAX_RATE, docs, lineItems, laborTiers, partsTiers, techs>>

job_add(r, title_in) ==
    /\ r \in DOMAIN ros
    /\ Cardinality(DOMAIN jobs) < MaxJobs
    /\ LET title == IF title_in = "" THEN "New Job" ELSE title_in
       IN  /\ jobs' = AddRow(jobs, NewJobId(jobs),
                             [ro_id |-> r, title |-> title, status |-> "pending",
                              completed_at |-> FALSE, tech_id |-> None])
           /\ events' = log_event(events, r, "job_added", None, Some(title))
    /\ response' = "redirect"
    /\ UNCHANGED <<pending, TAX_RATE, ros, docs, lineItems, laborTiers, partsTiers, techs>>

job_edit(j, title) ==
    /\ j \in DOMAIN jobs
    /\ IF title = ""
       THEN /\ response' = "Job name is required."
            /\ UNCHANGED <<jobs, events>>
       ELSE /\ jobs' = [jobs EXCEPT ![j].title = title]
            /\ events' = log_event(events, jobs[j].ro_id, "job_renamed",
                                   Some(jobs[j].title), Some(title))
            /\ response' = "redirect"
    /\ UNCHANGED <<pending, TAX_RATE, ros, docs, lineItems, laborTiers, partsTiers, techs>>

\* LineItem.query.filter_by(job_id=job.id): the rows of every document
UntagItems(items, j) ==
    [i \in DOMAIN items |-> IF items[i].job_id = j THEN [items[i] EXCEPT !.job_id = NoJob]
                            ELSE items[i]]

job_delete(j) ==
    /\ j \in DOMAIN jobs
    /\ lineItems' = [d \in DOMAIN lineItems |-> UntagItems(lineItems[d], j)]
    /\ jobs' = DelRow(jobs, j)
    /\ events' = log_event(events, jobs[j].ro_id, "job_deleted", Some(j), None)
    /\ response' = "redirect"
    /\ UNCHANGED <<pending, TAX_RATE, ros, docs, laborTiers, partsTiers, techs>>

job_complete(j, tech_id) ==
    /\ j \in DOMAIN jobs
    /\ LET r == jobs[j].ro_id
           was == jobs[j].status = "completed"
           hours == labor_hours_for_job(lineItems[Est(r)], j)
       IN  /\ jobs' = [jobs EXCEPT ![j].tech_id = IF tech_id # None THEN tech_id ELSE @,
                                   ![j].status = "completed",
                                   ![j].completed_at = IF was THEN @ ELSE TRUE]
           /\ techs' = IF tech_id # None /\ hours > 0 /\ Val(tech_id) \in DOMAIN techs
                       THEN [techs EXCEPT ![Val(tech_id)] = @ + hours]
                       ELSE techs
           /\ \A t \in DOMAIN techs' : techs'[t] <= MaxTechHours
           /\ LET ev1 == IF was THEN events
                         ELSE log_event(events, r, "job_completed", None, Some(jobs[j].title))
                  closes == Remaining(jobs', r) = 0
              IN  /\ ros' = IF closes
                            THEN [ros EXCEPT ![r].status = "closed", ![r].closed_at = TRUE]
                            ELSE ros
                  /\ events' = IF closes
                               THEN log_event(ev1, r, "ro_completed", None, Some("closed_at"))
                               ELSE ev1
    /\ response' = "redirect"
    /\ UNCHANGED <<pending, TAX_RATE, docs, lineItems, laborTiers, partsTiers>>

tech_add(t, name) ==
    /\ IF name = ""
       THEN /\ response' = "Technician name is required."
            /\ UNCHANGED techs
       ELSE /\ t \notin DOMAIN techs
            /\ techs' = AddRow(techs, t, 0)
            /\ response' = "redirect"
    /\ UNCHANGED <<pending, TAX_RATE, ros, jobs, docs, lineItems, laborTiers, partsTiers, events>>

----------------------------------------------------------------------------
\* Document actions.

\* str(doc.id)
DocIdStr(d) == d[1] \o "/" \o d[2]

EstimateSent(r) ==
    IF ros[r].status = "open" THEN [ros EXCEPT ![r].status = "estimate_sent"] ELSE ros

lock_document(d) ==
    /\ d \in DOMAIN docs
    /\ LET doc == recalc_document_totals(docs[d], lineItems[d], jobs, TAX_RATE)
           r == doc.ro_id
       IN  IF doc.doc_type = "estimate"
           THEN /\ docs' = [docs EXCEPT ![d] = [doc EXCEPT !.sent_at = TRUE, !.status = "sent",
                                                           !.locked_at = TRUE]]
                /\ events' = log_event(events, r, "estimate_sent", None, Some(DocIdStr(d)))
                /\ ros' = EstimateSent(r)
           ELSE /\ docs' = [docs EXCEPT ![d] = [doc EXCEPT !.status = "locked", !.locked_at = TRUE]]
                /\ UNCHANGED <<ros, events>>
    /\ response' = "redirect"
    /\ UNCHANGED <<pending, TAX_RATE, jobs, lineItems, laborTiers, partsTiers, techs>>

share_document(d, tok) ==
    /\ d \in DOMAIN docs
    /\ TokenFree(docs[d], docs, tok)
    /\ LET doc == recalc_document_totals(ensure_share_token(docs[d], docs, tok),
                                         lineItems[d], jobs, TAX_RATE)
           r == doc.ro_id
       IN  IF doc.doc_type = "estimate"
           THEN /\ docs' = [docs EXCEPT ![d] = [doc EXCEPT !.sent_at = TRUE, !.status = "sent"]]
                /\ events' = log_event(events, r, "estimate_sent", None, Some(DocIdStr(d)))
                /\ ros' = EstimateSent(r)
           ELSE /\ docs' = [docs EXCEPT ![d] = doc]
                /\ UNCHANGED <<ros, events>>
    /\ response' = "json"
    /\ UNCHANGED <<pending, TAX_RATE, jobs, lineItems, laborTiers, partsTiers, techs>>

\* copies that lose the job tag
CopyItemsUntagged(items) ==
    [i \in DOMAIN items |-> [items[i] EXCEPT !.job_id = NoJob]]

\* the copies approve_estimate inserts: the columns it names, row by row
CopyItems(items) ==
    [i \in DOMAIN items |->
        [job_id |-> items[i].job_id, item_type |-> items[i].item_type,
         description |-> items[i].description, qty |-> items[i].qty,
         unit_price |-> items[i].unit_price, taxable |-> items[i].taxable,
         labor_hours |-> items[i].labor_hours, cost |-> items[i].cost]]

\* approve_estimate without the check of the invoice's lock
approve_estimate_promoting_always(d) ==
    /\ d \in DOMAIN docs
    /\ IF docs[d].doc_type # "estimate"
       THEN /\ response' = "400"
            /\ UNCHANGED <<ros, docs, lineItems, events>>
       ELSE LET r == docs[d].ro_id
                approved == [docs EXCEPT ![d].status = "approved"]
            IN  /\ events' = log_event(events, r, "approved", None, Some(DocIdStr(d)))
                /\ ros' = [ros EXCEPT ![r].status = "work_in_progress"]
                /\ lineItems' = [lineItems EXCEPT ![Inv(r)] = lineItems[d]]
                /\ docs' = [approved EXCEPT
                              ![Inv(r)].subtotal = SumSeq([i \in DOMAIN lineItems[d] |->
                                                            line_amount(lineItems[d][i])]) \div 100]
                /\ response' = "redirect"
    /\ UNCHANGED <<pending, TAX_RATE, jobs, laborTiers, partsTiers, techs>>

approve_estimate(d) ==
    /\ d \in DOMAIN docs
    /\ IF docs[d].doc_type # "estimate"
       THEN /\ response' = "400"
            /\ UNCHANGED <<ros, docs, lineItems, events>>
       ELSE LET r == docs[d].ro_id
                approved == [docs EXCEPT ![d].status = "approved"]
            IN  /\ events' = log_event(events, r, "approved", None, Some(DocIdStr(d)))
                /\ ros' = [ros EXCEPT ![r].status = "work_in_progress"]
                /\ IF Frozen(approved[Inv(r)])
                   THEN /\ docs' = approved
                        /\ UNCHANGED lineItems
                   ELSE /\ lineItems' = [lineItems EXCEPT ![Inv(r)] = CopyItems(lineItems[d])]
                        /\ docs' = [approved EXCEPT ![Inv(r)] =
                                      recalc_document_totals(@, lineItems'[Inv(r)], jobs, TAX_RATE)]
                /\ response' = "redirect"
    /\ UNCHANGED <<pending, TAX_RATE, jobs, laborTiers, partsTiers, techs>>

decline_estimate(d) ==
    /\ d \in DOMAIN docs
    /\ IF docs[d].doc_type # "estimate"
       THEN /\ response' = "400"
            /\ UNCHANGED <<docs, events>>
       ELSE /\ docs' = [docs EXCEPT ![d].status = "declined"]
            /\ events' = log_event(events, docs[d].ro_id, "declined", None, Some(DocIdStr(d)))
            /\ response' = "redirect"
    /\ UNCHANGED <<pending, TAX_RATE, ros, jobs, lineItems, laborTiers, partsTiers, techs>>

mark_invoice_paid(d) ==
    /\ d \in DOMAIN docs
    /\ IF docs[d].doc_type # "invoice"
       THEN /\ response' = "400"
            /\ UNCHANGED <<docs, events>>
       ELSE /\ docs' = [docs EXCEPT ![d].status = "paid"]
            /\ events' = log_event(events, docs[d].ro_id, "paid", None, Some(DocIdStr(d)))
            /\ response' = "redirect"
    /\ UNCHANGED <<pending, TAX_RATE, ros, jobs, lineItems, laborTiers, partsTiers, techs>>

----------------------------------------------------------------------------
\* Share link.

DocsWithToken(tok) == {d \in DOMAIN docs : docs[d].share_token = Some(tok)}

\* GET /share/<token> and GET /share/<token>/document.pdf
share_view(tok) ==
    /\ IF DocsWithToken(tok) = {}
       THEN /\ response' = "404"
            /\ UNCHANGED docs
       ELSE \E d \in DocsWithToken(tok) :
              /\ docs' = [docs EXCEPT ![d] =
                            recalc_document_totals(@, lineItems[d], jobs, TAX_RATE)]
              /\ response' = "share_doc.html"
    /\ UNCHANGED <<pending, TAX_RATE, ros, jobs, lineItems, laborTiers, partsTiers, techs, events>>

\* GET /ros/<ro_id>/estimate.pdf and GET /ros/<ro_id>/invoice.pdf
doc_pdf(d) ==
    /\ d \in DOMAIN docs
    /\ docs' = [docs EXCEPT ![d] = recalc_document_totals(@, lineItems[d], jobs, TAX_RATE)]
    /\ response' = "pdf"
    /\ UNCHANGED <<pending, TAX_RATE, ros, jobs, lineItems, laborTiers, partsTiers, techs, events>>

\* share_job_status without the comparison of the job's repair order
share_job_status_any_job(tok, j, new_status) ==
    /\ DocsWithToken(tok) # {}
    /\ j \in DOMAIN jobs
    /\ new_status \in {"approved", "declined"}
    /\ jobs' = [jobs EXCEPT ![j].status = new_status]
    /\ events' = log_event(events, jobs[j].ro_id, "job_status",
                           Some(jobs[j].title \o ":" \o jobs[j].status),
                           Some(jobs[j].title \o ":" \o new_status))
    /\ response' = "redirect"
    /\ UNCHANGED <<pending, TAX_RATE, ros, docs, lineItems, laborTiers, partsTiers, techs>>

share_job_status(tok, j, new_status) ==
    /\ IF DocsWithToken(tok) = {}
       THEN /\ response' = "404"
            /\ UNCHANGED <<ros, jobs, events>>
       ELSE \E d \in DocsWithToken(tok) :
              IF docs[d].doc_type # "estimate"
              THEN /\ response' = "400"
                   /\ UNCHANGED <<ros, jobs, events>>
              ELSE IF j \notin DOMAIN jobs \/ jobs[j].ro_id # docs[d].ro_id
              THEN /\ response' = "404"
                   /\ UNCHANGED <<ros, jobs, events>>
              ELSE IF new_status \notin {"approved", "declined"}
              THEN /\ response' = "400"
                   /\ UNCHANGED <<ros, jobs, events>>
              ELSE LET r == docs[d].ro_id
                       title == jobs[j].title
                   IN  /\ jobs' = [jobs EXCEPT ![j].status = new_status]
                       /\ events' = log_event(events, r, "job_status",
                                              Some(title \o ":" \o jobs[j].status),
                                              Some(title \o ":" \o new_status))
                       /\ ros' = IF new_status = "approved"
                                    /\ ros[r].status \in {"open", "estimate_sent"}
                                 THEN [ros EXCEPT ![r].status = "work_in_progress"]
                                 ELSE ros
                       /\ response' = "redirect"
    /\ UNCHANGED <<pending, TAX_RATE, docs, lineItems, laborTiers, partsTiers, techs>>

----------------------------------------------------------------------------
\* Initial states.

EmptyTable == [x \in {} |-> None]

\* the empty database
Init ==
    /\ TAX_RATE = 7
    /\ ros = EmptyTable
    /\ jobs = EmptyTable
    /\ docs = EmptyTable
    /\ lineItems = EmptyTable
    /\ laborTiers = <<>>
    /\ partsTiers = <<>>
    /\ techs = EmptyTable
    /\ events = <<>>
    /\ response = "redirect"
    /\ pending = {}

\* the database after ro_new_create("ro1") with no concern, under tax rate rate
Created(rate) ==
    /\ TAX_RATE = rate
    /\ ros = [r \in {"ro1"} |-> [status |-> "open", closed_at |-> FALSE, concern |-> None]]
    /\ jobs = [j \in {"j1"} |-> [ro_id |-> "ro1", title |-> "Job 1", status |-> "pending",
                                 completed_at |-> FALSE, tech_id |-> None]]
    /\ docs = [d \in {Est("ro1"), Inv("ro1")} |-> NewDoc("ro1", d[2])]
    /\ lineItems = [d \in {Est("ro1"), Inv("ro1")} |-> <<>>]
    /\ laborTiers = <<>>
    /\ partsTiers = <<>>
    /\ techs = EmptyTable
    /\ events = <<[ro_id |-> "ro1", event_type |-> "created",
                   old_value |-> None, new_value |-> Some("open")]>>
    /\ response = "redirect"
    /\ pending = {}

----------------------------------------------------------------------------
\* Spec: every handler of the lifecycle, on one repair order, from the empty
\* database.  The audit log holds at most MaxEvents rows; line items are
\* entered on the estimate, one at a time, and reach the invoice by approval;
\* each document is offered one token.

\* the step leaves at most MaxEvents rows in the audit log
LogFits == Len(events') <= MaxEvents

TokenOf(d) == IF d[2] = "estimate" THEN "tkA" ELSE "tkB"
Tokens == {"tkA", "tkB"}

AddForms ==
    {[NoForm EXCEPT !.item_type = "labor", !.labor_hours = Some(100), !.job_id = "j1"],
     [NoForm EXCEPT !.item_type = "fee", !.fee_price = Some(5000), !.taxable = TRUE]}

EditForms == {[NoEdit EXCEPT !.qty = Some(200)]}

NewRO == ro_new_create("ro1", None) /\ LogFits
RoDetail == ro_detail("ro1", "tkA", "tkB")
RoChangeStatus == \E s \in {"closed", "open"} : ro_change_status("ro1", s) /\ LogFits
JobSetStatus ==
    \E j \in DOMAIN jobs, s \in {"approved", "declined", "completed"} :
        job_set_status(j, s) /\ LogFits
JobAdd == JobsOf(jobs, "ro1") = {} /\ job_add("ro1", "") /\ LogFits
JobEdit == \E j \in DOMAIN jobs : job_edit(j, "Brakes") /\ LogFits
JobDelete == \E j \in DOMAIN jobs : job_delete(j) /\ LogFits
JobComplete == \E j \in DOMAIN jobs : job_complete(j, None) /\ LogFits
AddItem ==
    /\ Est("ro1") \in DOMAIN docs
    /\ lineItems[Est("ro1")] = <<>>
    /\ \E f \in AddForms : add_line_item(Est("ro1"), f)
EditItem == \E d \in DOMAIN docs, i \in 1..MaxItems, f \in EditForms : edit_item(d, i, f)
DeleteItem == \E d \in DOMAIN docs, i \in 1..MaxItems : delete_item(d, i)
Lock == \E d \in DOMAIN docs : lock_document(d) /\ LogFits
Share == \E d \in DOMAIN docs : share_document(d, TokenOf(d)) /\ LogFits
Approve == \E d \in DOMAIN docs : approve_estimate(d) /\ LogFits
Decline == \E d \in DOMAIN docs : decline_estimate(d) /\ LogFits
MarkPaid == \E d \in DOMAIN docs : mark_invoice_paid(d) /\ LogFits
ShareView == \E tok \in Tokens : share_view(tok)
DocPdf == \E d \in DOMAIN docs : doc_pdf(d)
ShareJobStatus ==
    \E tok \in Tokens, j \in DOMAIN jobs, s \in {"approved", "declined"} :
        share_job_status(tok, j, s) /\ LogFits

Next ==
    \/ NewRO \/ RoDetail \/ RoChangeStatus
    \/ JobSetStatus \/ JobAdd \/ JobEdit \/ JobDelete \/ JobComplete
    \/ AddItem \/ EditItem \/ DeleteItem
    \/ Lock \/ Share \/ Approve \/ Decline \/ MarkPaid
    \/ ShareView \/ DocPdf \/ ShareJobStatus

Spec == Init /\ [][Next]_vars

----------------------------------------------------------------------------
\* SpecTotals: line items of one estimate and its totals.

TaxRates == {0, 7}

TotalsAddForms ==
    {[NoForm EXCEPT !.item_type = "fee", !.fee_price = Some(25), !.qty = Some(50),
                    !.taxable = t, !.job_id = j] : t \in BOOLEAN, j \in {NoJob, "j1"}}
    \cup {[NoForm EXCEPT !.item_type = "part", !.part_cost = Some(6000),
                         !.part_price = Some(10000)]}
    \cup {[NoForm EXCEPT !.item_type = "fee", !.fee_price = Some(5000), !.job_id = j] :
             j \in {NoJob, "j1"}}
    \cup {[NoForm EXCEPT !.item_type = "discount", !.discount_amount = Some(a)] :
             a \in {500, -500}}

TotalsEditForms ==
    {[NoEdit EXCEPT !.unit_price = Some(500)],
     [NoEdit EXCEPT !.qty = Some(-100), !.taxable = TRUE, !.job_id = "j1"]}

TotalsInit == \E rate \in TaxRates : Created(rate)

TotalsAdd == \E f \in TotalsAddForms : add_line_item(Est("ro1"), f)
TotalsEdit == \E i \in 1..MaxItems, f \in TotalsEditForms : edit_item(Est("ro1"), i, f)
TotalsDelete == \E i \in 1..MaxItems : delete_item(Est("ro1"), i)
TotalsRecalc == doc_pdf(Est("ro1"))
TotalsJobStatus == \E s \in {"declined", "approved"} : job_set_status("j1", s) /\ LogFits

TotalsNext == TotalsAdd \/ TotalsEdit \/ TotalsDelete \/ TotalsRecalc \/ TotalsJobStatus

SpecTotals == TotalsInit /\ [][TotalsNext]_vars

----------------------------------------------------------------------------
\* What the claims about totals speak of.

RECURSIVE SumOver(_, _)
\* the sum of f[x] over the x of S
SumOver(S, f) ==
    IF S = {} THEN 0
    ELSE LET x == CHOOSE y \in S : TRUE IN f[x] + SumOver(S \ {x}, f)

\* t is an integer nearest to n / d
Nearest(t, n, d) == 2 * Abs(t * d - n) <= d

\* the item is tagged to a job whose current status is declined
TaggedDeclined(li) ==
    li.job_id # NoJob /\ li.job_id \in DOMAIN jobs /\ jobs[li.job_id].status = "declined"

Counted(d) == {i \in DOMAIN lineItems[d] : ~TaggedDeclined(lineItems[d][i])}

\* sum of qty * unit_price over the taxable, non-discount items of d that are
\* not tagged to a declined job
TaxBase(d) ==
    SumOver({i \in Counted(d) : lineItems[d][i].taxable /\ lineItems[d][i].item_type # "discount"},
            [i \in DOMAIN lineItems[d] |-> lineItems[d][i].qty * lineItems[d][i].unit_price])

\* sum of the signed amounts of the items of d not tagged to a declined job
SubtotalBase(d) ==
    SumOver(Counted(d),
            [i \in DOMAIN lineItems[d] |->
                IF lineItems[d][i].item_type = "discount"
                THEN -Abs(lineItems[d][i].qty * lineItems[d][i].unit_price)
                ELSE lineItems[d][i].qty * lineItems[d][i].unit_price])

TaxAsSpecified(d) == Nearest(docs[d].tax, TAX_RATE * TaxBase(d), 10000)

TotalsAsSpecified(d) ==
    /\ Nearest(docs[d].subtotal, SubtotalBase(d), 100)
    /\ TaxAsSpecified(d)
    /\ Nearest(docs[d].total, SubtotalBase(d) + 100 * docs[d].tax, 100)

\* a step of SpecTotals that recalculates the estimate
TotalsRecalculates == TotalsAdd \/ TotalsEdit \/ TotalsDelete \/ TotalsRecalc

----------------------------------------------------------------------------
\* C3: after every recalculation the stored total equals the stored subtotal
\* plus the stored tax (the stored money fields are only ever written by
\* recalc_document_totals, so this is a property of every state).
C3_TotalIsSubtotalPlusTax ==
    \A d \in DOMAIN docs : docs[d].total = docs[d].subtotal + docs[d].tax

\* C4: whenever the estimate is recalculated, its stored tax is TAX_RATE times
\* the sum of qty * unit_price over exactly the taxable, non-discount items not
\* tagged to a declined job, rounded to the nearest cent.
C4_TaxOverTaxableActiveItems ==
    [][TotalsRecalculates => TaxAsSpecified(Est("ro1"))']_vars

\* C4 witness: $100 taxable part and $50 non-taxable fee at rate 0.07 recalculated
\* to tax 7.00 and total 157.00.
C4_Witness ==
    /\ TAX_RATE = 7
    /\ Len(lineItems[Est("ro1")]) = 2
    /\ \E i, k \in 1..2 :
         /\ lineItems[Est("ro1")][i].taxable
         /\ lineItems[Est("ro1")][i].qty * lineItems[Est("ro1")][i].unit_price = 1000000
         /\ ~lineItems[Est("ro1")][k].taxable
         /\ lineItems[Est("ro1")][k].qty * lineItems[Est("ro1")][k].unit_price = 500000
         /\ ~TaggedDeclined(lineItems[Est("ro1")][k])
    /\ docs[Est("ro1")].tax = 700
    /\ docs[Est("ro1")].total = 15700

\* C5: a recalculation that directly follows a recalculation of the same
\* document leaves subtotal, tax and total as they are, and after any
\* recalculation a further one would compute the stored values again.
C5_RecalcIdempotent ==
    [][TotalsRecalc =>
         /\ response = "pdf" => docs' = docs
         /\ recalc_document_totals(docs'[Est("ro1")], lineItems'[Est("ro1")], jobs', TAX_RATE')
              = docs'[Est("ro1")]]_vars

\* C5 witness: the estimate has just been recalculated to non-zero totals.
C5_Witness ==
    /\ response = "pdf"
    /\ docs[Est("ro1")].subtotal # 0
    /\ docs[Est("ro1")].tax # 0

\* C6: a recalculation stores subtotal, tax and total over the items not tagged
\* to a declined job only (untagged items always count) and leaves every line
\* item in storage unchanged.
C6_DeclinedItemsExcludedNotDeleted ==
    [][TotalsRecalc => /\ TotalsAsSpecified(Est("ro1"))'
                       /\ lineItems' = lineItems]_vars

\* C6 witness: recalculated estimate holding an item of a declined job and an
\* untagged one, whose subtotal is the untagged item's amount alone.
C6_Witness ==
    /\ response = "pdf"
    /\ Len(lineItems[Est("ro1")]) = 2
    /\ TaggedDeclined(lineItems[Est("ro1")][1])
    /\ line_amount(lineItems[Est("ro1")][1]) = 500000
    /\ lineItems[Est("ro1")][2].job_id = NoJob
    /\ line_amount(lineItems[Est("ro1")][2]) = 1000000
    /\ docs[Est("ro1")].subtotal = 10000

\* C7: every discount line item has stored unit price <= 0 and a contribution
\* to the subtotal <= 0.
C7_DiscountNonPositive ==
    \A d \in DOMAIN lineItems : \A i \in DOMAIN lineItems[d] :
        lineItems[d][i].item_type = "discount" =>
            /\ lineItems[d][i].unit_price <= 0
            /\ line_amount(lineItems[d][i]) <= 0

----------------------------------------------------------------------------
\* SpecMatrix: the two tier tables and the labor and part items priced from
\* them.  The lookups read one table each: the tables are configured one at a
\* time, and the estimate holds one item at a time.

LaborTierInputs == [min : {None, Some(200)}, max : {None, Some(200)},
                    value : {Some(10000), Some(8500)}]
PartsTierInputs == [min : {None, Some(10000)}, max : {None, Some(10000)},
                    value : {Some(15000), Some(13000)}]
LookupHours == {100, 200, 300}
LookupCosts == {25, 5000, 15000}

MatrixLaborForms ==
    {[NoForm EXCEPT !.item_type = "labor", !.labor_hours = h, !.labor_rate = o,
                    !.taxable = TRUE, !.qty = Some(500)] :
        h \in Opt(LookupHours), o \in {None, Some(9000)}}
MatrixPartForms ==
    {[NoForm EXCEPT !.item_type = "part", !.part_cost = c, !.part_price = o,
                    !.taxable = FALSE, !.qty = q] :
        c \in Opt(LookupCosts), o \in {None, Some(9900)}, q \in {None, Some(200)}}

MatrixInit == Created(7)

MatrixLaborAdd ==
    /\ partsTiers = <<>>
    /\ \E t \in LaborTierInputs : matrices_labor_add(t.min, t.max, t.value)
MatrixPartsAdd ==
    /\ laborTiers = <<>>
    /\ \E t \in PartsTierInputs : matrices_parts_add(t.min, t.max, t.value)
MatrixDeleteTier == \E kind \in {"labor", "parts"}, i \in 1..MaxTiers : matrices_delete_tier(kind, i)
MatrixAddLabor ==
    /\ lineItems[Est("ro1")] = <<>>
    /\ \E f \in MatrixLaborForms : add_line_item(Est("ro1"), f)
MatrixAddPart ==
    /\ lineItems[Est("ro1")] = <<>>
    /\ \E f \in MatrixPartForms : add_line_item(Est("ro1"), f)
MatrixDeleteItem == delete_item(Est("ro1"), 1)

MatrixNext ==
    \/ MatrixLaborAdd \/ MatrixPartsAdd \/ MatrixDeleteTier
    \/ MatrixAddLabor \/ MatrixAddPart \/ MatrixDeleteItem

SpecMatrix == MatrixInit /\ [][MatrixNext]_vars

\* tier t's range contains x
Contains(t, x) == t.min <= x /\ (t.max = None \/ x <= Val(t.max))

Rows(tiers) == {tiers[i] : i \in DOMAIN tiers}

\* what section 4.1 says of the result v of a lookup of x in the rows of a table
LookupAsSpecified(rows, x, v, dflt) ==
    /\ rows = {} => v = dflt
    /\ (\E t \in rows : Contains(t, x)) =>
          \E t \in rows : /\ Contains(t, x)
                          /\ v = t.value
                          /\ \A u \in rows : Contains(u, x) => t.min <= u.min
    /\ (rows # {} /\ \A t \in rows : t.max # None /\ x > Val(t.max)) =>
          \E t \in rows : /\ v = t.value
                          /\ \A u \in rows : u.min <= t.min

\* C8: in every tier configuration and for every input, both lookups return
\* the value of the first containing tier in ascending order of min, the fixed
\* default when the table is empty, and the value of the last (highest-min)
\* tier when the input exceeds every tier's range.
C8_LookupsAsSpecified ==
    /\ \A lt \in OrderByMin(laborTiers) : \A h \in LookupHours :
          LookupAsSpecified(Rows(laborTiers), h, get_labor_rate_for_hours(lt, h), 11500)
    /\ \A pt \in OrderByMin(partsTiers) : \A c \in LookupCosts :
          LookupAsSpecified(Rows(partsTiers), c, get_parts_multiplier_for_cost(pt, c), 13000)

\* C8 witness: two bounded tiers, and a labor item of 3 hours, above both
\* ranges, priced by add_line_item at the highest-min tier's rate.
C8_Witness ==
    /\ laborTiers = <<[min |-> 200, max |-> Some(200), value |-> 8500],
                      [min |-> 0, max |-> Some(200), value |-> 10000]>>
    /\ lineItems[Est("ro1")] # <<>>
    /\ lineItems[Est("ro1")][1].item_type = "labor"
    /\ lineItems[Est("ro1")][1].qty = 300
    /\ lineItems[Est("ro1")][1].unit_price = 8500

\* the step adds a line item to the estimate from form f
Adds(f) ==
    /\ add_line_item(Est("ro1"), f)
    /\ Len(lineItems'[Est("ro1")]) = Len(lineItems[Est("ro1")]) + 1

Added == lineItems'[Est("ro1")][Len(lineItems'[Est("ro1")])]

\* C9: a labor item added with hours h is stored with quantity h, labor_hours
\* h, taxable false whatever the posted quantity and taxable flag, and unit
\* price the posted rate override or, without one, the labor rate looked up
\* for h.
C9_LaborItemPriced ==
    [][\A f \in MatrixLaborForms : Adds(f) =>
          /\ Added.item_type = "labor"
          /\ Added.qty = Val(f.labor_hours)
          /\ Added.labor_hours = f.labor_hours
          /\ Added.taxable = FALSE
          /\ IF f.labor_rate # None
             THEN Added.unit_price = Val(f.labor_rate)
             ELSE \E lt \in OrderByMin(laborTiers) :
                     Added.unit_price = get_labor_rate_for_hours(lt, Val(f.labor_hours))]_vars

\* C9 witness: tiers [(0,2,100),(2,unbounded,85)] and a labor item of 3 hours
\* stored with qty 3.00, unit price 85.00, not taxable.
C9_Witness ==
    /\ Rows(laborTiers) = {[min |-> 0, max |-> Some(200), value |-> 10000],
                           [min |-> 200, max |-> None, value |-> 8500]}
    /\ lineItems[Est("ro1")] =
          <<[job_id |-> NoJob, item_type |-> "labor", description |-> "", qty |-> 300,
             unit_price |-> 8500, taxable |-> FALSE, labor_hours |-> Some(300),
             cost |-> None]>>

\* C10: a part item added with cost c is stored with taxable true whatever the
\* posted flag, cost c, and unit price the posted price override or, without
\* one, c times the parts multiplier looked up for c, rounded to the cent.
C10_PartItemPriced ==
    [][\A f \in MatrixPartForms : Adds(f) =>
          /\ Added.item_type = "part"
          /\ Added.taxable = TRUE
          /\ Added.cost = f.part_cost
          /\ IF f.part_price # None
             THEN Added.unit_price = Val(f.part_price)
             ELSE \E pt \in OrderByMin(partsTiers) :
                     Nearest(Added.unit_price,
                             Val(f.part_cost) * get_parts_multiplier_for_cost(pt, Val(f.part_cost)),
                             10000)]_vars

\* C10 witness: tiers [(0,100,1.5),(100,unbounded,1.3)] and a part of cost
\* 50.00 with no override stored with unit price 75.00, taxable.
C10_Witness ==
    /\ Rows(partsTiers) = {[min |-> 0, max |-> Some(10000), value |-> 15000],
                           [min |-> 10000, max |-> None, value |-> 13000]}
    /\ lineItems[Est("ro1")] =
          <<[job_id |-> NoJob, item_type |-> "part", description |-> "", qty |-> 100,
             unit_price |-> 7500, taxable |-> TRUE, labor_hours |-> None,
             cost |-> Some(5000)]>>

----------------------------------------------------------------------------
\* SpecFreeze: line-item requests and recalculations against documents that
\* get locked or paid.

FreezeAddForms ==
    {[NoForm EXCEPT !.item_type = "labor", !.labor_hours = Some(100), !.job_id = "j1"],
     [NoForm EXCEPT !.item_type = "fee", !.fee_price = Some(5000), !.taxable = TRUE]}
FreezeEditForms == {[NoEdit EXCEPT !.qty = Some(200), !.job_id = "j1"]}

FreezeInit == Created(7)

FreezeAdd == \E d \in DOMAIN docs, f \in FreezeAddForms : add_line_item(d, f)
FreezeEdit == \E d \in DOMAIN docs, i \in 1..MaxItems, f \in FreezeEditForms : edit_item(d, i, f)
FreezeDelete == \E d \in DOMAIN docs, i \in 1..MaxItems : delete_item(d, i)
FreezeRecalc == \E d \in DOMAIN docs : doc_pdf(d)
FreezeLock == \E d \in DOMAIN docs : lock_document(d) /\ LogFits
FreezePaid == mark_invoice_paid(Inv("ro1")) /\ LogFits
FreezeJobStatus == \E s \in {"declined", "approved"} : job_set_status("j1", s) /\ LogFits

FreezeNext ==
    \/ FreezeAdd \/ FreezeEdit \/ FreezeDelete \/ FreezeRecalc
    \/ FreezeLock \/ FreezePaid \/ FreezeJobStatus

SpecFreeze == FreezeInit /\ [][FreezeNext]_vars

\* the document is locked or paid
LockedOrPaid(doc) == doc.status \in {"locked", "paid"} \/ doc.locked_at

\* the step leaves document d's money fields and line items as they were
Untouched(d) ==
    /\ d \in DOMAIN docs'
    /\ docs'[d].subtotal = docs[d].subtotal
    /\ docs'[d].tax = docs[d].tax
    /\ docs'[d].total = docs[d].total
    /\ lineItems'[d] = lineItems[d]

\* C1: no step of any operation changes the stored subtotal, tax or total or
\* any line item (job tag included) of a document that is locked or paid.
C1_FrozenDocumentsNeverChange ==
    [][\A d \in DOMAIN docs : LockedOrPaid(docs[d]) => Untouched(d)]_vars

\* C2: on a locked or paid document, a recalculation and an add, delete or
\* edit line item request change neither the stored subtotal, tax and total
\* nor any line item.
C2_ItemRequestsOnFrozenAreNoOps ==
    [][\A d \in DOMAIN docs :
          (/\ LockedOrPaid(docs[d])
           /\ \/ doc_pdf(d)
              \/ \E f \in FreezeAddForms : add_line_item(d, f)
              \/ \E i \in 1..MaxItems : delete_item(d, i)
              \/ \E i \in 1..MaxItems, f \in FreezeEditForms : edit_item(d, i, f))
          => Untouched(d)]_vars

\* C2 witness: a line-item request has just been refused on a locked estimate
\* that holds an item of a since-declined job, so that a recalculation, were it
\* not skipped, would store other totals.
C2_Witness ==
    /\ response = "Document is locked."
    /\ LockedOrPaid(docs[Est("ro1")])
    /\ \E i \in DOMAIN lineItems[Est("ro1")] : TaggedDeclined(lineItems[Est("ro1")][i])
    /\ docs[Est("ro1")].subtotal # 0
    /\ ~TotalsAsSpecified(Est("ro1"))

----------------------------------------------------------------------------
\* SpecReject: requests the handlers refuse, among requests they accept.

RejectAddForms ==
    {[NoForm EXCEPT !.item_type = "fee", !.fee_price = Some(5000), !.taxable = TRUE],
     [NoForm EXCEPT !.item_type = "labor", !.labor_rate = Some(9000)],
     [NoForm EXCEPT !.item_type = "part", !.part_price = Some(2000)],
     [NoForm EXCEPT !.item_type = "fee", !.fee_cost = Some(100), !.taxable = TRUE],
     [NoForm EXCEPT !.item_type = "discount", !.qty = Some(200)],
     [NoForm EXCEPT !.item_type = "tire", !.fee_price = Some(5000)],
     NoForm}
RejectRoStatuses == {"closed", "done"}
RejectJobStatuses == {"approved", "closed"}
RejectShareJobStatuses == {"declined", "completed"}

RejectInit == Created(7)

RejectAdd == \E d \in DOMAIN docs, f \in RejectAddForms : add_line_item(d, f)
RejectLock == \E d \in DOMAIN docs : lock_document(d) /\ LogFits
RejectRoStatus == \E s \in RejectRoStatuses : ro_change_status("ro1", s) /\ LogFits
RejectJobStatus == \E s \in RejectJobStatuses : job_set_status("j1", s) /\ LogFits
RejectApprove == \E d \in DOMAIN docs : approve_estimate(d) /\ LogFits
RejectDecline == \E d \in DOMAIN docs : decline_estimate(d) /\ LogFits
RejectPaid == \E d \in DOMAIN docs : mark_invoice_paid(d) /\ LogFits
RejectShare == share_document(Est("ro1"), "tkA") /\ LogFits
RejectShareJob ==
    \E s \in RejectShareJobStatuses : share_job_status("tkA", "j1", s) /\ LogFits

RejectNext ==
    \/ RejectAdd \/ RejectLock \/ RejectRoStatus \/ RejectJobStatus \/ RejectApprove
    \/ RejectDecline \/ RejectPaid \/ RejectShare \/ RejectShareJob

SpecReject == RejectInit /\ [][RejectNext]_vars

\* the posted form fails validation: a labor item without hours, a part
\* without cost, a fee without unit price, a discount without amount, or an
\* item type that is none of the four
FailsValidation(f) ==
    \/ f.item_type = "labor" /\ f.labor_hours = None
    \/ f.item_type = "part" /\ f.part_cost = None
    \/ f.item_type = "fee" /\ f.fee_price = None
    \/ f.item_type = "discount" /\ f.discount_amount = None
    \/ f.item_type \notin {"labor", "part", "fee", "discount"}

\* C11: an add line item request that fails validation, or that targets a
\* locked or paid document, creates no line item and leaves the document's line
\* items, subtotal, tax, total and status as they were.
C11_RefusedAddChangesNothing ==
    [][\A d \in DOMAIN docs, f \in RejectAddForms :
          (add_line_item(d, f) /\ (FailsValidation(f) \/ LockedOrPaid(docs[d])))
          => /\ lineItems' = lineItems
             /\ Untouched(d)
             /\ docs'[d].status = docs[d].status]_vars

\* C11 witness: a fee posted without a unit price has just been refused on an
\* unlocked estimate that already holds an item.
C11_Witness ==
    /\ response = "Fee requires a unit price."
    /\ ~LockedOrPaid(docs[Est("ro1")])
    /\ lineItems[Est("ro1")] # <<>>
    /\ docs[Est("ro1")].total # 0

\* the statuses a RepairOrder and a Job may take
RoAllowed == {"open", "estimate_sent", "work_in_progress", "closed", "canceled"}
JobAllowed == {"pending", "approved", "work_in_progress", "completed", "declined"}

\* a request that is an invalid transition
InvalidTransition ==
    \/ \E s \in RejectRoStatuses \ RoAllowed : ro_change_status("ro1", s)
    \/ \E s \in RejectJobStatuses \ JobAllowed : job_set_status("j1", s)
    \/ approve_estimate(Inv("ro1"))
    \/ decline_estimate(Inv("ro1"))
    \/ mark_invoice_paid(Est("ro1"))
    \/ \E s \in RejectShareJobStatuses \ {"approved", "declined"} :
          share_job_status("tkA", "j1", s)

\* C16: a request rejected as an invalid transition leaves every RepairOrder,
\* Job, Document and LineItem unchanged and appends no audit event.
C16_InvalidTransitionChangesNothing ==
    [][InvalidTransition => UNCHANGED <<ros, jobs, docs, lineItems, events>>]_vars

\* C16 witness: a status outside the allowed set has just been refused on a
\* repair order whose status had already moved on and whose estimate is shared.
C16_Witness ==
    /\ response = "Invalid status."
    /\ ros["ro1"].status = "work_in_progress"
    /\ docs[Est("ro1")].share_token # None
    /\ Len(events) > 1

----------------------------------------------------------------------------
\* SpecApprove: approvals of an estimate whose invoice holds items of its own
\* and gets locked or paid.

ApproveAddForms ==
    {[NoForm EXCEPT !.item_type = "labor", !.labor_hours = Some(100), !.job_id = "j1"],
     [NoForm EXCEPT !.item_type = "part", !.part_cost = Some(4000), !.qty = Some(200),
                    !.description = "pads"]}

ApproveInit == Created(7)

ApproveAdd == \E d \in DOMAIN docs, f \in ApproveAddForms : add_line_item(d, f)
ApproveDelete == \E d \in DOMAIN docs, i \in 1..MaxItems : delete_item(d, i)
ApproveLock == lock_document(Inv("ro1"))
ApprovePaid == mark_invoice_paid(Inv("ro1")) /\ LogFits
ApproveEstimate == approve_estimate(Est("ro1")) /\ LogFits

ApproveNext ==
    ApproveAdd \/ ApproveDelete \/ ApproveLock \/ ApprovePaid \/ ApproveEstimate

SpecApprove == ApproveInit /\ [][ApproveNext]_vars

\* C12: approving an estimate whose invoice is locked or paid leaves the
\* invoice's line items and totals unchanged, while the estimate's status
\* becomes approved and the repair order's status becomes work_in_progress.
C12_ApprovalSkipsFrozenInvoice ==
    [][(approve_estimate(Est("ro1")) /\ LockedOrPaid(docs[Inv("ro1")]))
       => /\ Untouched(Inv("ro1"))
          /\ docs'[Est("ro1")].status = "approved"
          /\ ros'["ro1"].status = "work_in_progress"]_vars

\* C12 witness: the estimate, holding two items, has been approved after the
\* invoice was paid, and the invoice holds other items than the estimate's.
C12_Witness ==
    /\ events[Len(events)].event_type = "approved"
    /\ docs[Inv("ro1")].status = "paid"
    /\ docs[Est("ro1")].status = "approved"
    /\ Len(lineItems[Est("ro1")]) = 2
    /\ lineItems[Inv("ro1")] # <<>>
    /\ lineItems[Inv("ro1")] # lineItems[Est("ro1")]

\* item b is a copy of item a
SameItem(a, b) ==
    /\ b.job_id = a.job_id
    /\ b.item_type = a.item_type
    /\ b.description = a.description
    /\ b.qty = a.qty
    /\ b.unit_price = a.unit_price
    /\ b.taxable = a.taxable
    /\ b.labor_hours = a.labor_hours
    /\ b.cost = a.cost

\* C13: approving an estimate whose invoice is not locked or paid leaves on the
\* invoice exactly one copy of each of the estimate's line items, whatever the
\* invoice held before; approving again leaves the same number of items.
C13_PromotionOverwrites ==
    [][(approve_estimate(Est("ro1")) /\ ~LockedOrPaid(docs[Inv("ro1")]))
       => /\ Len(lineItems'[Inv("ro1")]) = Len(lineItems[Est("ro1")])
          /\ \A i \in DOMAIN lineItems[Est("ro1")] :
                SameItem(lineItems[Est("ro1")][i], lineItems'[Inv("ro1")][i])
          /\ lineItems'[Est("ro1")] = lineItems[Est("ro1")]
          /\ (docs[Est("ro1")].status = "approved"
                /\ lineItems[Inv("ro1")] = lineItems[Est("ro1")]
              => Len(lineItems'[Inv("ro1")]) = Len(lineItems[Inv("ro1")]))]_vars

\* C13 witness: the estimate, holding two tagged and untagged items, has been
\* approved twice in a row and the unlocked invoice holds its two items.
C13_Witness ==
    /\ Len(events) = 3
    /\ events[2].event_type = "approved"
    /\ events[3].event_type = "approved"
    /\ ~LockedOrPaid(docs[Inv("ro1")])
    /\ Len(lineItems[Est("ro1")]) = 2
    /\ lineItems[Est("ro1")][1].job_id # lineItems[Est("ro1")][2].job_id
    /\ lineItems[Inv("ro1")] = lineItems[Est("ro1")]

----------------------------------------------------------------------------
\* SpecJobs: completions of the jobs of one repair order, with room in the
\* audit log for the closure of a repair order of two jobs.

JobsLogFits == Len(events') <= MaxEvents + 2
JobsTechInputs == {None, Some("t1")}
JobsStatusInputs == {"completed", "approved"}
JobsAddForms ==
    {[NoForm EXCEPT !.item_type = "labor", !.labor_hours = Some(100), !.job_id = "j1"]}

JobsInit == Created(7)

JobsAdd == job_add("ro1", "Brakes") /\ JobsLogFits
JobsSetStatus ==
    \E j \in DOMAIN jobs, s \in JobsStatusInputs : job_set_status(j, s) /\ JobsLogFits
JobsComplete ==
    \E j \in DOMAIN jobs, t \in JobsTechInputs : job_complete(j, t) /\ JobsLogFits
JobsReopen == ro_change_status("ro1", "open") /\ JobsLogFits
JobsTechAdd == tech_add("t1", "Al")
JobsAddItem ==
    /\ lineItems[Est("ro1")] = <<>>
    /\ \E f \in JobsAddForms : add_line_item(Est("ro1"), f)

JobsNext ==
    JobsAdd \/ JobsSetStatus \/ JobsComplete \/ JobsReopen \/ JobsTechAdd \/ JobsAddItem

SpecJobs == JobsInit /\ [][JobsNext]_vars

\* a completion of job j: a status change to completed, or job_complete
Completion(j) ==
    \/ job_set_status(j, "completed")
    \/ \E t \in JobsTechInputs : job_complete(j, t)

\* every job of repair order r is completed
AllCompleted(jobRows, r) ==
    \A k \in DOMAIN jobRows : jobRows[k].ro_id = r => jobRows[k].status = "completed"

\* the number of ro_completed events of repair order r in the log
RoCompletedEvents(log, r) ==
    Cardinality({i \in DOMAIN log : log[i].ro_id = r /\ log[i].event_type = "ro_completed"})

\* C14: a job completion that leaves every job of the repair order completed
\* closes the repair order (status closed, closed_at set) and appends exactly
\* one ro_completed event; a completion that leaves a job not completed
\* neither closes the repair order nor appends a ro_completed event.
C14_LastCompletionCloses ==
    [][\A j \in DOMAIN jobs :
          Completion(j) =>
            LET r == jobs[j].ro_id
            IN  IF AllCompleted(jobs', r)
                THEN /\ ros'[r].status = "closed"
                     /\ ros'[r].closed_at
                     /\ RoCompletedEvents(events', r) = RoCompletedEvents(events, r) + 1
                ELSE /\ ros'[r] = ros[r]
                     /\ RoCompletedEvents(events', r) = RoCompletedEvents(events, r)]_vars

\* C14 witness: the second of two jobs has just been completed, one by status
\* change and one by job_complete, and the repair order is closed.
C14_Witness ==
    /\ Cardinality(DOMAIN jobs) = 2
    /\ AllCompleted(jobs, "ro1")
    /\ ros["ro1"].status = "closed"
    /\ ros["ro1"].closed_at
    /\ events[Len(events)].event_type = "ro_completed"
    /\ RoCompletedEvents(events, "ro1") = 1
    /\ \E i \in DOMAIN events : events[i].event_type = "job_completed"
    /\ \E i \in DOMAIN events : events[i].event_type = "job_status"

----------------------------------------------------------------------------
\* the step changes the status of a RepairOrder, a Job or a Document
StatusMutation ==
    \/ \E r \in DOMAIN ros \cap DOMAIN ros' : ros'[r].status # ros[r].status
    \/ \E j \in DOMAIN jobs \cap DOMAIN jobs' : jobs'[j].status # jobs[j].status
    \/ \E d \in DOMAIN docs \cap DOMAIN docs' : docs'[d].status # docs[d].status

\* C15: every status mutation of a RepairOrder, Job or Document appends an
\* audit event for that mutation, committed together with it; in particular
\* no step changes a status and leaves the audit log as it was.
C15_StatusMutationsAudited ==
    [][StatusMutation => Len(events') > Len(events)]_vars

----------------------------------------------------------------------------
\* SpecShare: share tokens drawn from a pool small enough to collide.

ShareTokens == {"tkA", "tkB", "tkC"}
ShareAddForms ==
    {[NoForm EXCEPT !.item_type = "fee", !.fee_price = Some(5000), !.taxable = TRUE]}

ShareInit == Created(7)

ShareDetail == \E t1 \in ShareTokens, t2 \in ShareTokens : ro_detail("ro1", t1, t2)
ShareDocument ==
    \E d \in DOMAIN docs, tok \in ShareTokens : share_document(d, tok) /\ LogFits
ShareGet == \E tok \in ShareTokens : share_view(tok)
ShareLock == \E d \in DOMAIN docs : lock_document(d) /\ LogFits
ShareApprove == approve_estimate(Est("ro1")) /\ LogFits
ShareAdd == \E d \in DOMAIN docs, f \in ShareAddForms : add_line_item(d, f)

ShareNext ==
    ShareDetail \/ ShareDocument \/ ShareGet \/ ShareLock \/ ShareApprove \/ ShareAdd

SpecShare == ShareInit /\ [][ShareNext]_vars

\* C19: a document that holds a share token keeps that token through every
\* later call of ensure_share_token and every other operation.
C19_ShareTokenKept ==
    [][\A d \in DOMAIN docs :
          docs[d].share_token # None
          => d \in DOMAIN docs' /\ docs'[d].share_token = docs[d].share_token]_vars

\* C19 witness: the estimate has been shared twice, so that ensure_share_token
\* ran on it a second time while it held a token.
C19_Witness ==
    /\ response = "json"
    /\ docs[Est("ro1")].share_token # None
    /\ Len(events) = 3
    /\ events[2].event_type = "estimate_sent"
    /\ events[3].event_type = "estimate_sent"
    /\ ~docs[Est("ro1")].locked_at

\* C20: no two distinct documents hold the same share token.
C20_ShareTokensUnique ==
    \A d1 \in DOMAIN docs, d2 \in DOMAIN docs :
       (d1 # d2 /\ docs[d1].share_token # None)
       => docs[d1].share_token # docs[d2].share_token

\* C20 witness: both documents hold a token, assigned by separate requests.
C20_Witness ==
    /\ docs[Est("ro1")].share_token # None
    /\ docs[Inv("ro1")].share_token # None
    /\ response = "json"
    /\ Len(events) = 2
    /\ events[2].event_type = "estimate_sent"

----------------------------------------------------------------------------
\* The handlers that call db.session.commit() twice, one action per commit.
\* A request that has done its first commit is in pending until its second.

\* add_line_item up to its first commit: the LineItem row
add_line_item_commit(doc_id, f) ==
    /\ doc_id \in DOMAIN docs
    /\ IF Frozen(docs[doc_id])
       THEN /\ response' = "Document is locked."
            /\ UNCHANGED <<lineItems, pending>>
       ELSE \E lt \in OrderByMin(laborTiers), pt \in OrderByMin(partsTiers) :
              LET new == NewLineItem(f, lt, pt)
              IN  IF ~new.ok
                  THEN /\ response' = new.msg
                       /\ UNCHANGED <<lineItems, pending>>
                  ELSE /\ Len(lineItems[doc_id]) < MaxItems
                       /\ lineItems' = [lineItems EXCEPT ![doc_id] = Append(@, new.li)]
                       /\ pending' = pending \cup {<<"add_line_item", doc_id>>}
                       /\ UNCHANGED response
    /\ UNCHANGED <<TAX_RATE, ros, jobs, docs, laborTiers, partsTiers, techs, events>>

\* delete_item up to its first commit: the row's deletion
delete_item_commit(doc_id, i) ==
    /\ doc_id \in DOMAIN docs
    /\ i \in DOMAIN lineItems[doc_id]
    /\ IF Frozen(docs[doc_id])
       THEN /\ response' = "Document is locked."
            /\ UNCHANGED <<lineItems, pending>>
       ELSE /\ lineItems' = [lineItems EXCEPT ![doc_id] = RemoveAt(@, i)]
            /\ pending' = pending \cup {<<"delete_item", doc_id>>}
            /\ UNCHANGED response
    /\ UNCHANGED <<TAX_RATE, ros, jobs, docs, laborTiers, partsTiers, techs, events>>

\* edit_item up to its first commit: the row's new columns
edit_item_commit(doc_id, i, f) ==
    /\ doc_id \in DOMAIN docs
    /\ i \in DOMAIN lineItems[doc_id]
    /\ IF Frozen(docs[doc_id])
       THEN /\ response' = "Document is locked."
            /\ UNCHANGED <<lineItems, pending>>
       ELSE /\ lineItems' = [lineItems EXCEPT ![doc_id][i] = EditedItem(@, f)]
            /\ pending' = pending \cup {<<"edit_item", doc_id>>}
            /\ UNCHANGED response
    /\ UNCHANGED <<TAX_RATE, ros, jobs, docs, laborTiers, partsTiers, techs, events>>

\* approve_estimate whose first commit holds the deletion of the invoice's
\* items and not the copies
approve_estimate_commit_deleting(d) ==
    /\ d \in DOMAIN docs
    /\ docs[d].doc_type = "estimate"
    /\ events' = log_event(events, docs[d].ro_id, "approved", None, Some(DocIdStr(d)))
    /\ ros' = [ros EXCEPT ![docs[d].ro_id].status = "work_in_progress"]
    /\ docs' = [docs EXCEPT ![d].status = "approved"]
    /\ lineItems' = [lineItems EXCEPT ![Inv(docs[d].ro_id)] = <<>>]
    /\ pending' = pending \cup {<<"approve_estimate", Inv(docs[d].ro_id)>>}
    /\ UNCHANGED <<response, TAX_RATE, jobs, laborTiers, partsTiers, techs>>

\* approve_estimate up to its first commit: the statuses, the audit event and,
\* unless the invoice is locked, the invoice's rows replaced by the copies.
\* With a locked invoice that commit is the only one.
approve_estimate_commit(d) ==
    /\ d \in DOMAIN docs
    /\ IF docs[d].doc_type # "estimate"
       THEN /\ response' = "400"
            /\ UNCHANGED <<ros, docs, lineItems, events, pending>>
       ELSE LET r == docs[d].ro_id
            IN  /\ events' = log_event(events, r, "approved", None, Some(DocIdStr(d)))
                /\ ros' = [ros EXCEPT ![r].status = "work_in_progress"]
                /\ docs' = [docs EXCEPT ![d].status = "approved"]
                /\ IF Frozen(docs'[Inv(r)])
                   THEN /\ response' = "redirect"
                        /\ UNCHANGED <<lineItems, pending>>
                   ELSE /\ lineItems' = [lineItems EXCEPT ![Inv(r)] = CopyItems(lineItems[d])]
                        /\ pending' = pending \cup {<<"approve_estimate", Inv(r)>>}
                        /\ UNCHANGED response
    /\ UNCHANGED <<TAX_RATE, jobs, laborTiers, partsTiers, techs>>

\* the second commit of request h on document d: recalc_document_totals
recalc_commit(h, d) ==
    /\ <<h, d>> \in pending
    /\ docs' = [docs EXCEPT ![d] = recalc_document_totals(@, lineItems[d], jobs, TAX_RATE)]
    /\ pending' = pending \ {<<h, d>>}
    /\ response' = IF h = "edit_item" THEN "Line item updated." ELSE "redirect"
    /\ UNCHANGED <<TAX_RATE, ros, jobs, lineItems, laborTiers, partsTiers, techs, events>>

----------------------------------------------------------------------------
\* SpecCommit: the committed states of the database under requests that
\* interleave at their commits, at most MaxPending of them between two commits.

PendingFits == Cardinality(pending') <= MaxPending
CommitAddForms ==
    {[NoForm EXCEPT !.item_type = "labor", !.labor_hours = Some(100), !.job_id = "j1"],
     [NoForm EXCEPT !.item_type = "fee", !.fee_price = Some(5000), !.taxable = TRUE]}
CommitEditForms == {[NoEdit EXCEPT !.qty = Some(200), !.job_id = "j1"]}

CommitInit == Created(7)

CommitAdd ==
    \E d \in DOMAIN docs, f \in CommitAddForms : add_line_item_commit(d, f) /\ PendingFits
CommitEdit ==
    \E d \in DOMAIN docs, i \in 1..MaxItems, f \in CommitEditForms :
       edit_item_commit(d, i, f) /\ PendingFits
CommitDelete ==
    \E d \in DOMAIN docs, i \in 1..MaxItems : delete_item_commit(d, i) /\ PendingFits
CommitApprove == approve_estimate_commit(Est("ro1")) /\ PendingFits /\ LogFits
CommitRecalc == \E p \in pending : recalc_commit(p[1], p[2])
CommitLock == \E d \in DOMAIN docs : lock_document(d) /\ LogFits
CommitPdf == \E d \in DOMAIN docs : doc_pdf(d)

CommitNext ==
    \/ CommitAdd \/ CommitEdit \/ CommitDelete \/ CommitApprove \/ CommitRecalc
    \/ CommitLock \/ CommitPdf

SpecCommit == CommitInit /\ [][CommitNext]_vars

\* C17: add, edit and delete line item, promotion and lock are each applied as
\* one transaction: no committed state holds a line-item mutation without the
\* matching recompute, that is, in every committed state the stored totals of
\* an unlocked document are the ones a recompute over its stored items stores.
C17_MutationCommitsWithTotals ==
    \A d \in DOMAIN docs :
       ~LockedOrPaid(docs[d])
       => docs[d] = recalc_document_totals(docs[d], lineItems[d], jobs, TAX_RATE)

\* a commit of a promotion
PromotionCommit ==
    \/ approve_estimate_commit(Est("ro1"))
    \/ recalc_commit("approve_estimate", Inv("ro1"))

\* C18: no commit of a promotion leaves the invoice with its old items deleted
\* and only some or none of the copies inserted: each leaves the invoice's
\* items as they were or leaves one copy of every item of the estimate.
C18_PromotionAllOrNothing ==
    [][PromotionCommit
       => \/ lineItems'[Inv("ro1")] = lineItems[Inv("ro1")]
          \/ /\ Len(lineItems'[Inv("ro1")]) = Len(lineItems[Est("ro1")])
             /\ \A i \in DOMAIN lineItems[Est("ro1")] :
                   SameItem(lineItems[Est("ro1")][i], lineItems'[Inv("ro1")][i])]_vars

\* C18 witness: a promotion is between its two commits; the invoice, which
\* held one item of its own, holds the copies of the estimate's two items and
\* still the totals of its old item.
C18_Witness ==
    /\ <<"approve_estimate", Inv("ro1")>> \in pending
    /\ Len(lineItems[Est("ro1")]) = 2
    /\ lineItems[Inv("ro1")] = lineItems[Est("ro1")]
    /\ docs[Inv("ro1")].subtotal # 0
    /\ docs[Inv("ro1")].subtotal # docs[Est("ro1")].subtotal

----------------------------------------------------------------------------
\* Status machines, under Spec.

\* C21: the lock action and the share action on an estimate both set its
\* status to sent, stamp sent_at and locked_at, and advance the repair order
\* from open to estimate_sent, leaving any other repair order status alone.
C21_LockAndShareSendEstimate ==
    [][(\/ lock_document(Est("ro1"))
        \/ \E tok \in Tokens : share_document(Est("ro1"), tok))
       => /\ docs'[Est("ro1")].status = "sent"
          /\ docs'[Est("ro1")].sent_at
          /\ docs'[Est("ro1")].locked_at
          /\ ros'["ro1"].status = IF ros["ro1"].status = "open" THEN "estimate_sent"
                                  ELSE ros["ro1"].status]_vars

\* C22: an invoice whose status is paid keeps that status under every later
\* operation.
C22_PaidStaysPaid ==
    [][\A d \in DOMAIN docs :
          (docs[d].doc_type = "invoice" /\ docs[d].status = "paid")
          => (d \in DOMAIN docs' /\ docs'[d].status = "paid")]_vars

\* C23: a repair order's closed_at is set if and only if its status is closed.
C23_ClosedAtIffClosed ==
    \A r \in DOMAIN ros : ros[r].closed_at <=> ros[r].status = "closed"

----------------------------------------------------------------------------
\* the number of events of type t in the log
EventsOfType(log, t) == Cardinality({i \in DOMAIN log : log[i].event_type = t})

\* C24: job_complete on a job that is already completed increases no
\* technician's cumulative hours and appends no further job_completed or
\* ro_completed audit event.
C24_HoursCreditedOncePerJob ==
    [][\A j \in DOMAIN jobs, t \in JobsTechInputs :
          (jobs[j].status = "completed" /\ job_complete(j, t))
          => /\ techs' = techs
             /\ EventsOfType(events', "job_completed") = EventsOfType(events, "job_completed")
             /\ EventsOfType(events', "ro_completed") = EventsOfType(events, "ro_completed")]_vars

----------------------------------------------------------------------------
\* C25: after every state-changing operation, each document that is not locked
\* or paid has the stored subtotal, tax and total that a recalculation over its
\* current line items and current job statuses computes.
C25_OperationsLeaveTotalsCurrent ==
    [][\A d \in DOMAIN docs' :
          ~LockedOrPaid(docs'[d])
          => LET now == recalc_document_totals(docs'[d], lineItems'[d], jobs', TAX_RATE')
             IN  /\ docs'[d].subtotal = now.subtotal
                 /\ docs'[d].tax = now.tax
                 /\ docs'[d].total = now.total]_vars

----------------------------------------------------------------------------
\* C26: a repair order whose status is closed or canceled changes status only
\* by a manual status change.
C26_ClosedLeftOnlyManually ==
    [][\A r \in DOMAIN ros :
          (/\ ros[r].status \in {"closed", "canceled"}
           /\ ~(\E s \in RoAllowed : ro_change_status(r, s)))
          => ros'[r].status = ros[r].status]_vars

----------------------------------------------------------------------------
\* SpecStatus: job status changes, by the shop and through the share link,
\* against a repair order in each of its statuses.

StatusRo == \E s \in RoStatuses : ro_change_status("ro1", s) /\ LogFits
StatusJob == \E s \in JobStatuses : job_set_status("j1", s) /\ JobsLogFits
StatusShare == share_document(Est("ro1"), "tkA") /\ LogFits
StatusShareJob ==
    \E s \in RejectShareJobStatuses \cup {"approved"} :
       share_job_status("tkA", "j1", s) /\ JobsLogFits

StatusInit == Created(7)

StatusNext == StatusRo \/ StatusJob \/ StatusShare \/ StatusShareJob

SpecStatus == StatusInit /\ [][StatusNext]_vars

\* job j1 is set to status s, by the shop or through the estimate's share link
JobStatusChange(s) ==
    \/ job_set_status("j1", s)
    \/ /\ s \in {"approved", "declined"}
       /\ docs[Est("ro1")].share_token = Some("tkA")
       /\ share_job_status("tkA", "j1", s)

----------------------------------------------------------------------------
\* C28: a job's status only changes along pending, approved, work_in_progress,
\* completed, or to declined from a state before completed; in particular a
\* completed job keeps its status under every operation.
C28_CompletedJobStaysCompleted ==
    [][\A j \in DOMAIN jobs \cap DOMAIN jobs' :
          jobs[j].status = "completed" => jobs'[j].status = "completed"]_vars

\* C29: an invoice's status only changes from draft to locked and from there
\* (or from draft) to paid.
C29_InvoiceStatusPath ==
    [][\A d \in DOMAIN docs \cap DOMAIN docs' :
          (docs[d].doc_type = "invoice" /\ docs'[d].status # docs[d].status)
          => <<docs[d].status, docs'[d].status>>
                \in {<<"draft", "locked">>, <<"locked", "paid">>, <<"draft", "paid">>}]_vars

\* C30: an estimate's status only changes along draft, sent, approved or
\* draft, sent, declined; in particular an approved or declined estimate is
\* never again sent or draft.
C30_DecidedEstimateNotResent ==
    [][\A d \in DOMAIN docs \cap DOMAIN docs' :
          (docs[d].doc_type = "estimate" /\ docs[d].status \in {"approved", "declined"})
          => docs'[d].status \notin {"sent", "draft"}]_vars

----------------------------------------------------------------------------
\* C31: immediately after an estimate is approved with an invoice that is not
\* locked or paid, the invoice's stored subtotal, tax and total equal the
\* estimate's stored subtotal, tax and total.
C31_PromotedTotalsEqualEstimate ==
    [][(approve_estimate(Est("ro1")) /\ ~LockedOrPaid(docs[Inv("ro1")]))
       => /\ docs'[Inv("ro1")].subtotal = docs'[Est("ro1")].subtotal
          /\ docs'[Inv("ro1")].tax = docs'[Est("ro1")].tax
          /\ docs'[Inv("ro1")].total = docs'[Est("ro1")].total]_vars

----------------------------------------------------------------------------
\* SpecLink: the public job action on two repair orders, each document with a
\* share token of its own.

LinkTokens == {"tkA", "tkB", "tkC", "tkD", "tkE"}

LinkInit == Created(7)

LinkNewRO == ro_new_create("ro2", None) /\ JobsLogFits
LinkDetail ==
    \/ ro_detail("ro1", "tkA", "tkB")
    \/ ro_detail("ro2", "tkC", "tkD")
LinkJobStatus ==
    \E tok \in LinkTokens, j \in JobIds, s \in RejectShareJobStatuses \cup {"approved"} :
       share_job_status(tok, j, s) /\ JobsLogFits

LinkNext == LinkNewRO \/ LinkDetail \/ LinkJobStatus

SpecLink == LinkInit /\ [][LinkNext]_vars

\* C32: the public job action changes a job only when the token is an
\* estimate's, the job belongs to that estimate's repair order and the
\* requested status is approved or declined; it changes no other job and sets
\* no other status.
C32_ShareLinkConfined ==
    [][\A tok \in LinkTokens, j \in JobIds, s \in RejectShareJobStatuses \cup {"approved"} :
          share_job_status(tok, j, s)
          => /\ DOMAIN jobs' = DOMAIN jobs
             /\ \A k \in DOMAIN jobs :
                   jobs'[k] # jobs[k]
                   => /\ k = j
                      /\ s \in {"approved", "declined"}
                      /\ jobs'[k] = [jobs[k] EXCEPT !.status = s]
                      /\ \E d \in DOMAIN docs :
                            /\ docs[d].share_token = Some(tok)
                            /\ docs[d].doc_type = "estimate"
                            /\ docs[d].ro_id = jobs[k].ro_id]_vars

\* C32 witness: with two repair orders whose documents all hold tokens, the job
\* of the second has been declined through a share link and the job of the
\* first is as it was.
C32_Witness ==
    /\ DOMAIN ros = {"ro1", "ro2"}
    /\ \A d \in DOMAIN docs : docs[d].share_token # None
    /\ response = "redirect"
    /\ events[Len(events)].event_type = "job_status"
    /\ events[Len(events)].ro_id = "ro2"
    /\ \E j \in DOMAIN jobs : jobs[j].ro_id = "ro2" /\ jobs[j].status = "declined"
    /\ \A j \in DOMAIN jobs : jobs[j].ro_id = "ro1" => jobs[j].status = "pending"

----------------------------------------------------------------------------
\* C33: every existing repair order has at least one job.
C33_OrderHasAJob ==
    \A r \in DOMAIN ros : \E j \in DOMAIN jobs : jobs[j].ro_id = r

----------------------------------------------------------------------------
\* C34: a manual status change to one of the five statuses stores that
\* status; to closed it leaves closed_at set, to any other status it leaves
\* closed_at cleared.
C34_ManualChangeKeepsClosedAt ==
    [][\A s \in RoAllowed :
          ro_change_status("ro1", s)
          => /\ ros'["ro1"].status = s
             /\ ros'["ro1"].closed_at <=> s = "closed"]_vars

\* C34 witness: the repair order has been closed by hand and then set to
\* another status by hand, and its closed_at is cleared.
C34_Witness ==
    /\ Len(events) = 3
    /\ events[2].event_type = "ro_status"
    /\ events[2].new_value = Some("closed")
    /\ events[3].event_type = "ro_status"
    /\ events[3].old_value = Some("closed")
    /\ ros["ro1"].status = "canceled"
    /\ ~ros["ro1"].closed_at

----------------------------------------------------------------------------
\* C35: the audit log is append-only: in every step the events existing before
\* the step are a prefix of the events after it.
C35_AuditLogAppendOnly ==
    [][/\ Len(events') >= Len(events)
       /\ \A i \in DOMAIN events : events'[i] = events[i]]_vars

\* C35 witness: the log holds three events of three operations, in the order
\* they were performed.
C35_Witness ==
    /\ Len(events) = 3
    /\ events[1].event_type = "created"
    /\ events[2].event_type = "estimate_sent"
    /\ events[3].event_type = "approved"

----------------------------------------------------------------------------
\* C36: in every state reached by adding and editing line items, every line
\* item whose type is not discount has a positive signed amount
\* (qty * unit_price > 0).
C36_NonDiscountAmountPositive ==
    \A d \in DOMAIN lineItems : \A i \in DOMAIN lineItems[d] :
        lineItems[d][i].item_type # "discount" => line_amount(lineItems[d][i]) > 0

----------------------------------------------------------------------------
\* C37: for every combination of line items and job statuses, the revenue of
\* the estimate's profit summary equals the subtotal a recalculation of the
\* estimate computes, its cost is the sum of qty * cost over the non-discount
\* items with a recorded cost, and its margin_pct is 0 when the revenue is 0.
C37_ProfitRevenueIsSubtotal ==
    LET d == Est("ro1")
        p == calc_profit_for_doc(lineItems[d])
        costed == {i \in DOMAIN lineItems[d] :
                      lineItems[d][i].item_type # "discount" /\ lineItems[d][i].cost # None}
    IN  /\ p.revenue = recalc_document_totals(docs[d], lineItems[d], jobs, TAX_RATE).subtotal
        /\ Nearest(p.cost,
                   SumOver(costed, [i \in costed |->
                                      lineItems[d][i].qty * Val(lineItems[d][i].cost)]),
                   100)
        /\ p.revenue = 0 => p.margin_pct = 0

====
